---- MODULE Spec2Model ----
(***************************************************************************)
(* Face verification demo: the repository's own logic as a state machine.  *)
(*                                                                         *)
(* Each behaviour is one call of one entry point (the variable call names  *)
(* it): utils.identify_face_from_frame, utils.build_gallery_embeddings,    *)
(* utils.index_images_by_person, app.initialize_camera, app.main,          *)
(* camera_utils.capture_image, test_setup.main, or the life of one         *)
(* trt_inference.TRTInfer object.  Init draws the call's arguments and the *)
(* environment it runs in; the actions are the steps of the code.          *)
(*                                                                         *)
(* Text.  A file name, a pattern or a path is a sequence of one-character  *)
(* strings; the person ids index_images_by_person derives are such         *)
(* sequences too.                                                          *)
(*                                                                         *)
(* Numbers.  The code computes in IEEE floats; the model computes in exact *)
(* rationals <<n, d>> (d > 0, lowest terms).  A Euclidean distance is the  *)
(* square root of a rational r and is kept as <<"sqrt", r>>: comparing two *)
(* roots compares their radicands, and comparing a root with a threshold t *)
(* compares r with t*t when t > 0.  float('inf') is <<"inf", 0>>.          *)
(*                                                                         *)
(* Embeddings and thresholds are finite numbers (no NaN).                   *)
(*                                                                         *)
(* The neural network is a pass-through to a library: an image is          *)
(* identified with the embedding model.predict assigns to it.              *)
(***************************************************************************)
EXTENDS Integers, Sequences, FiniteSets, TLC

\* ---------------------------------------------------------------- bounds
\* Largest number of image paths listed for one person.
MaxImages == 2
\* Largest coordinate of a query embedding (queries lie on the integer grid).
MaxCoord == 1

\* Longest stem (the part before the ending) of a generated file name.
MaxStem == 2

\* The person ids that may occur as keys of a gallery or of an image index.
PersonIds == {"alice", "bob"}

\* ------------------------------------------------------------- rationals
Abs(x) == IF x < 0 THEN -x ELSE x

RECURSIVE GCD(_, _)
GCD(a, b) == IF b = 0 THEN a ELSE GCD(b, a % b)

\* The rational n/d in lowest terms with a positive denominator (d # 0).
Rat(n, d) ==
    LET g == GCD(Abs(n), Abs(d))
        s == IF d < 0 THEN -1 ELSE 1
    IN  <<(s * n) \div g, (s * d) \div g>>

RatOfInt(n) == <<n, 1>>
RatAdd(a, b) == Rat(a[1] * b[2] + b[1] * a[2], a[2] * b[2])
RatSub(a, b) == Rat(a[1] * b[2] - b[1] * a[2], a[2] * b[2])
RatMul(a, b) == Rat(a[1] * b[1], a[2] * b[2])
RatDivInt(a, k) == Rat(a[1], a[2] * k)
RatLt(a, b) == a[1] * b[2] < b[1] * a[2]
RatLe(a, b) == a[1] * b[2] <= b[1] * a[2]

\* ------------------------------------------------- optional values (None)
None == <<>>
Some(x) == <<x>>

\* ------------------------------------------------------------ distances
\* float('inf')
Inf == <<"inf", RatOfInt(0)>>
\* The non-negative real whose square is the rational r.
Sqrt(r) == <<"sqrt", r>>
IsInf(x) == x[1] = "inf"

RECURSIVE SumSquares(_, _)
SumSquares(v, i) ==
    IF i > Len(v) THEN RatOfInt(0)
    ELSE RatAdd(RatMul(v[i], v[i]), SumSquares(v, i + 1))

\* embedding1 - embedding2, element-wise.
VecSub(a, b) == [i \in 1..Len(a) |-> RatSub(a[i], b[i])]

\* np.linalg.norm(embedding1 - embedding2)
euclidean_distance(embedding1, embedding2) ==
    Sqrt(SumSquares(VecSub(embedding1, embedding2), 1))

\* Mutant of Closer: the comparison reversed (distance > min_distance), which
\* no distance satisfies against float('inf').
Closer_reversed(distance, min_distance) ==
    /\ ~IsInf(distance)
    /\ ~IsInf(min_distance)
    /\ RatLt(min_distance[2], distance[2])

\* distance < min_distance, for a finite distance and a running minimum that
\* starts at float('inf').
Closer(distance, min_distance) ==
    /\ ~IsInf(distance)
    /\ \/ IsInf(min_distance)
       \/ RatLt(distance[2], min_distance[2])

\* Mutant of BelowThreshold: <= in place of <.
BelowThreshold_le(min_distance, threshold) ==
    /\ ~IsInf(min_distance)
    /\ RatLe(RatOfInt(0), threshold)
    /\ RatLe(min_distance[2], RatMul(threshold, threshold))

\* min_distance < threshold, for a finite threshold: a root sqrt(r) is below t
\* exactly when t > 0 and r < t*t; float('inf') is below no finite number.
BelowThreshold(min_distance, threshold) ==
    /\ ~IsInf(min_distance)
    /\ RatLt(RatOfInt(0), threshold)
    /\ RatLt(min_distance[2], RatMul(threshold, threshold))

\* ------------------------------------------------------- identify_face
\* A gallery is a Python dict in insertion order: a sequence of
\* <<person_id, ref_embedding>> with pairwise distinct person ids.

\* The for loop of identify_face from its i-th item on: <<identified_person,
\* min_distance>> after the last item.
RECURSIVE NearestScan(_, _, _, _, _)
NearestScan(query_embedding, gallery_embeddings, i, min_distance, identified_person) ==
    IF i > Len(gallery_embeddings) THEN <<identified_person, min_distance>>
    ELSE LET person_id == gallery_embeddings[i][1]
             ref_embedding == gallery_embeddings[i][2]
             distance == euclidean_distance(query_embedding, ref_embedding)
         IN  IF Closer(distance, min_distance)
             THEN NearestScan(query_embedding, gallery_embeddings, i + 1,
                              distance, person_id)
             ELSE NearestScan(query_embedding, gallery_embeddings, i + 1,
                              min_distance, identified_person)

\* Mutant of identify_face: the nearest person's id is kept on REJECT.
identify_face_keeps_id(query_embedding, gallery_embeddings, threshold) ==
    LET scan == NearestScan(query_embedding, gallery_embeddings, 1, Inf, "UNKNOWN")
        status == IF BelowThreshold(scan[2], threshold) THEN "MATCH" ELSE "REJECT"
    IN  <<scan[1], scan[2], status>>

\* identify_face: <<person_id, min_distance, status>>.
identify_face(query_embedding, gallery_embeddings, threshold) ==
    LET scan == NearestScan(query_embedding, gallery_embeddings, 1, Inf, "UNKNOWN")
        min_distance == scan[2]
        status == IF BelowThreshold(min_distance, threshold) THEN "MATCH" ELSE "REJECT"
        identified_person == IF status = "REJECT" THEN "UNKNOWN" ELSE scan[1]
    IN  <<identified_person, min_distance, status>>

\* preprocess_image: None for no image, otherwise the resized, normalised
\* image (which the model maps to the same embedding).
preprocess_image(img) == IF img = None THEN None ELSE img

\* identify_face_from_frame: face_img is None or Some(the embedding the model
\* gives the face).
identify_face_from_frame(face_img, gallery_embeddings, threshold) ==
    LET face_processed == preprocess_image(face_img)
    IN  IF face_processed = None THEN <<"UNKNOWN", Inf, "REJECT">>
        ELSE identify_face(face_processed[1], gallery_embeddings, threshold)

\* --------------------------------------------- build_gallery_embeddings
\* An image file is a record: imread tells what cv2.imread and the
\* preprocessing do with it ("ok", "none": imread returns None, "error": an
\* exception is raised and caught), emb is the embedding of the loaded image.

\* load_image: None, or Some(the preprocessed image).
load_image(img_path) ==
    IF img_path.imread = "ok" THEN Some(img_path.emb) ELSE None

\* The inner loop of build_gallery_embeddings: the list embeddings.
RECURSIVE CollectEmbeddings(_)
CollectEmbeddings(paths) ==
    IF paths = <<>> THEN <<>>
    ELSE LET img == load_image(Head(paths))
             rest == CollectEmbeddings(Tail(paths))
         IN  IF img # None THEN <<img[1]>> \o rest ELSE rest

RECURSIVE SumCoord(_, _, _)
SumCoord(embeddings, k, i) ==
    IF i > Len(embeddings) THEN RatOfInt(0)
    ELSE RatAdd(embeddings[i][k], SumCoord(embeddings, k, i + 1))

\* np.mean(embeddings, axis=0) of a non-empty list of vectors.
np_mean(embeddings) ==
    [k \in 1..Len(embeddings[1]) |->
        RatDivInt(SumCoord(embeddings, k, 1), Len(embeddings))]

\* Mutant of PersonEntry: the sum is divided by the number of paths, not by
\* the number of images that loaded.
PersonEntry_all_paths(person_id, paths) ==
    LET embeddings == CollectEmbeddings(paths)
    IN  IF embeddings # <<>>
        THEN <<<<person_id,
                 [k \in 1..Len(embeddings[1]) |->
                    RatDivInt(SumCoord(embeddings, k, 1), Len(paths))]>>>>
        ELSE <<>>

\* One iteration of the outer loop: the entries it adds to the gallery.
PersonEntry(person_id, paths) ==
    LET embeddings == CollectEmbeddings(paths)
    IN  IF embeddings # <<>> THEN <<<<person_id, np_mean(embeddings)>>>> ELSE <<>>

\* build_gallery_embeddings: image_paths_dict is a sequence of
\* <<person_id, paths>> with pairwise distinct person ids.
RECURSIVE build_gallery_embeddings(_)
build_gallery_embeddings(image_paths_dict) ==
    IF image_paths_dict = <<>> THEN <<>>
    ELSE PersonEntry(Head(image_paths_dict)[1], Head(image_paths_dict)[2])
         \o build_gallery_embeddings(Tail(image_paths_dict))

\* ------------------------------------------------------------ the inputs
\* Query embeddings: the integer grid.
QueryEmbeddings ==
    {<<RatOfInt(x), RatOfInt(y)>> : x \in 0..MaxCoord, y \in 0..MaxCoord}

\* Reference embeddings of a gallery: the half-integer grid (means of two
\* grid points lie on it).
GalleryEmbeddings ==
    {<<Rat(x, 2), Rat(y, 2)>> : x \in 0..(2 * MaxCoord), y \in 0..(2 * MaxCoord)}

\* Embeddings of the reference images on disk.
ImageEmbeddings ==
    {<<RatOfInt(0), RatOfInt(0)>>, <<RatOfInt(1), RatOfInt(0)>>,
     <<RatOfInt(1), RatOfInt(1)>>}

\* threshold=0.6, the default of identify_face and of VERIFICATION_THRESHOLD.
DefaultThreshold == Rat(3, 5)

\* Thresholds: the default, values that equal a distance of the grid (1/2, 1),
\* one above every distance, zero and a negative one.
Thresholds ==
    {DefaultThreshold, Rat(1, 2), RatOfInt(1), RatOfInt(2), RatOfInt(0),
     RatOfInt(-1)}

\* The values of an insertion-ordered dict with keys in K and values in V.
Distinct(d) == \A i, j \in 1..Len(d) : i # j => d[i][1] # d[j][1]
Dicts(K, V) ==
    {d \in UNION {[1..n -> K \X V] : n \in 0..Cardinality(K)} : Distinct(d)}

Galleries == Dicts(PersonIds, GalleryEmbeddings)

ImageFiles ==
    {[imread |-> "ok", emb |-> e] : e \in ImageEmbeddings}
    \cup {[imread |-> r, emb |-> <<RatOfInt(0), RatOfInt(0)>>] :
            r \in {"none", "error"}}

PathLists == UNION {[1..n -> ImageFiles] : n \in 0..MaxImages}

ImagePathDicts == Dicts(PersonIds, PathLists)

\* ------------------------------------------------------------ the camera
\* Largest max_retries tried (the default, 5, is among the values).
MaxRetries == 5
\* max_retries=5, the default of initialize_camera.
DefaultMaxRetries == 5
\* Largest timeout of capture_image, in clock ticks.
MaxTimeout == 2
\* Largest number of cap.read() calls of one capture_image call.
MaxReads == 3

\* cv2.VideoCapture(camera_index): a capture that is opened or not.
VideoCapture(opened) == [opened |-> opened, configured |-> FALSE]
\* cap.isOpened()
isOpened(c) == c.opened
\* cap.set(...) of the frame width, the frame height and the frame rate.
Configure(c) == [c EXCEPT !.configured = TRUE]

\* Mutant of AttemptsLeft: one iteration too many.
AttemptsLeft_one_more(attempt, retries) == attempt <= retries

\* for attempt in range(max_retries): whether the loop has an iteration left
\* after attempt iterations.
AttemptsLeft(attempt, retries) == attempt < retries

\* while time.time() - start < timeout
LoopTest(t, limit) == t < limit

\* cv2.waitKey(1) & 0xFF: 'c', 'q', or anything else (no key included).
NoKey == ""
Keys == {"c", "q", NoKey}

\* Where capture_image's loop goes after a read: "loop" (continue, or the end
\* of the body), "after" (break) or "raised" (cancelled).
AfterRead(inter, ret, key) ==
    IF ~ret THEN "loop"
    ELSE IF inter
         THEN IF key = "c" THEN "after"
              ELSE IF key = "q" THEN "raised"
              ELSE "loop"
         ELSE "after"

\* filename="photo.jpg"
Filename == "photo.jpg"

\* cv2.imwrite(filename, frame) either writes the file and returns True, or
\* cannot write it (no such directory, no permission, disk full) and returns
\* False; "photo.jpg" has an encoder, so it does not raise.
ImwriteOutcomes == {TRUE, FALSE}
\* The file's contents after cv2.imwrite(filename, frame).
imwrite(old, fr, written) == IF written THEN fr ELSE old

\* ------------------------------------------------------------- TensorRT
\* Largest number of predict calls on one TRTInfer object.
MaxPredicts == 2

\* The import guard of the module: "ok", or which import raised.
ImportOutcomes == {"ok", "no_tensorrt", "no_pycuda"}
\* trt is None: the except branch resets it whichever import failed.
trt_is_None(imp) == imp # "ok"

ImportFailed == "RuntimeError: TensorRT / PyCUDA import failed"
EngineNotFound == "FileNotFoundError: Engine file not found"
DeserializeFailed == "RuntimeError: Failed to deserialize engine"
NoInputBinding == "RuntimeError: No input binding detected in engine"
UnboundBs == "UnboundLocalError: bs"

\* Everything __init__ creates when it runs to its end.
AllCreated == {"logger", "engine", "context", "stream", "buffers"}

\* Mutant of TRTInfer_init: the engine file is looked for before the imports
\* are.
TRTInfer_init_file_first(imp, exists, deser, has_input, shape_given) ==
    IF ~exists THEN [raised |-> EngineNotFound, created |-> {}]
    ELSE IF trt_is_None(imp) THEN [raised |-> ImportFailed, created |-> {}]
    ELSE IF ~deser THEN [raised |-> DeserializeFailed, created |-> {"logger"}]
    ELSE IF ~has_input /\ ~shape_given
         THEN [raised |-> UnboundBs, created |-> AllCreated]
    ELSE [raised |-> "", created |-> AllCreated]

\* TRTInfer.__init__: the exception it raises ("" for none) and what it has
\* created by then.  imp is the outcome of the imports, exists whether
\* engine_path exists, deser whether the engine deserializes, has_input
\* whether the engine has an input binding, shape_given whether input_shape
\* was passed.
TRTInfer_init(imp, exists, deser, has_input, shape_given) ==
    IF trt_is_None(imp) THEN [raised |-> ImportFailed, created |-> {}]
    ELSE IF ~exists THEN [raised |-> EngineNotFound, created |-> {}]
    ELSE IF ~deser THEN [raised |-> DeserializeFailed, created |-> {"logger"}]
    ELSE IF ~has_input /\ ~shape_given
         THEN [raised |-> UnboundBs, created |-> AllCreated]
    ELSE [raised |-> "", created |-> AllCreated]

\* The images passed to predict.
TrtImages == {1, 2}
\* The engine: the output vector it computes for an input (a stand-in for
\* the network, one distinct vector per image).
Engine(x) == <<10 * x + 1, 10 * x + 2>>
\* What freshly allocated memory (cuda.pagelocked_empty, cuda.mem_alloc) may
\* hold: anything, stale outputs included.
Uninitialized == {<<0, 0>>} \cup {Engine(x) : x \in TrtImages}

\* The operations a predict call enqueues on the stream, in order: the input
\* copy and the inference, then the output copy, which the device carries
\* out element by element.
InputOps == <<<<"htod", 0>>, <<"exec", 0>>>>
OutputOps == <<<<"dtoh", 1>>, <<"dtoh", 2>>>>

\* ------------------------------------------------ index_images_by_person
\* A file name, a pattern or a path is a sequence of one-character strings.
ascii_uppercase == <<"A", "B", "C", "D", "E", "F", "G", "H", "I", "J", "K", "L",
                     "M", "N", "O", "P", "Q", "R", "S", "T", "U", "V", "W", "X",
                     "Y", "Z">>
ascii_lowercase == <<"a", "b", "c", "d", "e", "f", "g", "h", "i", "j", "k", "l",
                     "m", "n", "o", "p", "q", "r", "s", "t", "u", "v", "w", "x",
                     "y", "z">>

\* str.lower() on one character.
LowerChar(c) ==
    IF \E i \in 1..Len(ascii_uppercase) : ascii_uppercase[i] = c
    THEN ascii_lowercase[CHOOSE i \in 1..Len(ascii_uppercase) :
                             ascii_uppercase[i] = c]
    ELSE c

\* str.lower()
lower(s) == [i \in 1..Len(s) |-> LowerChar(s[i])]

\* str.endswith(suffix)
endswith(s, suffix) ==
    /\ Len(s) >= Len(suffix)
    /\ SubSeq(s, Len(s) - Len(suffix) + 1, Len(s)) = suffix

\* The tuple ('.jpg', '.jpeg', '.png').
ImageSuffixes == {<<".", "j", "p", "g">>, <<".", "j", "p", "e", "g">>,
                  <<".", "p", "n", "g">>}

\* filename.lower().endswith(('.jpg', '.jpeg', '.png'))
IsImageName_case_sensitive(filename) ==
    \E suffix \in ImageSuffixes : endswith(filename, suffix)

IsImageName(filename) ==
    \E suffix \in ImageSuffixes : endswith(lower(filename), suffix)

\* The positions at which pattern occurs in s.
Occurrences(s, pattern) ==
    {i \in 1..(Len(s) - Len(pattern) + 1) :
        SubSeq(s, i, i + Len(pattern) - 1) = pattern}

\* pattern in filename
contains(s, pattern) == Occurrences(s, pattern) # {}

\* s.split(pattern)[0], for a pattern that occurs in s
split_0(s, pattern) ==
    LET first == CHOOSE i \in Occurrences(s, pattern) :
                     \A j \in Occurrences(s, pattern) : i <= j
    IN  SubSeq(s, 1, first - 1)

\* os.path.splitext(filename)[0] for a name without directory separators:
\* the name up to its last dot, when a character other than a dot precedes
\* that dot; the whole name otherwise.
splitext_0(filename) ==
    LET dots == {i \in 1..Len(filename) : filename[i] = "."}
    IN  IF dots = {}
        THEN filename
        ELSE LET dotIndex == CHOOSE i \in dots : \A j \in dots : j <= i
             IN  IF \E k \in 1..(dotIndex - 1) : filename[k] # "."
                 THEN SubSeq(filename, 1, dotIndex - 1)
                 ELSE filename

\* The person id a file name is indexed under.
person_id(filename, pattern) ==
    IF contains(filename, pattern)
    THEN split_0(filename, pattern)
    ELSE splitext_0(filename)

\* os.path.join(image_dir, filename) for a name os.listdir returned.
os_path_join(image_dir, filename) ==
    IF image_dir = <<>> THEN filename
    ELSE IF image_dir[Len(image_dir)] = "/" THEN image_dir \o filename
    ELSE image_dir \o <<"/">> \o filename

\* images_by_person[key].append(full_path), the list created when the key
\* is new.
AppendPath(images_by_person, key, full_path) ==
    IF \E i \in 1..Len(images_by_person) : images_by_person[i][1] = key
    THEN [i \in 1..Len(images_by_person) |->
             IF images_by_person[i][1] = key
             THEN <<key, Append(images_by_person[i][2], full_path)>>
             ELSE images_by_person[i]]
    ELSE Append(images_by_person, <<key, <<full_path>>>>)

\* The loop over os.listdir(image_dir).
RECURSIVE IndexLoop(_, _, _, _)
IndexLoop(images_by_person, image_dir, filenames, pattern) ==
    IF filenames = <<>>
    THEN images_by_person
    ELSE LET filename == Head(filenames)
         IN  IndexLoop(IF IsImageName(filename)
                       THEN AppendPath(images_by_person,
                                       person_id(filename, pattern),
                                       os_path_join(image_dir, filename))
                       ELSE images_by_person,
                       image_dir, Tail(filenames), pattern)

\* index_images_by_person(image_dir, pattern); exists is
\* os.path.exists(image_dir) and filenames is os.listdir(image_dir).
index_images_by_person(exists, image_dir, filenames, pattern) ==
    IF ~exists
    THEN <<>>
    ELSE IndexLoop(<<>>, image_dir, filenames, pattern)

\* The characters a file name's stem is drawn from.
StemChars == {"a", "_", "."}
Stems == UNION {[1..n -> StemChars] : n \in 0..MaxStem}
\* The endings of the file names: three image extensions, in mixed case, and
\* one that is none.
Endings == {<<".", "j", "p", "g">>, <<".", "J", "P", "E", "G">>,
            <<".", "P", "n", "g">>, <<".", "t", "x", "t">>}
\* Names in which the default pattern separates a person from a tail.
SeparatedNames == {<<"a", "_", "_", "a", ".", "j", "p", "g">>,
                   <<"a", "_", "_", ".", "P", "N", "G">>,
                   <<"a", "_", "_", "a", "_", "_", "a", ".", "j", "p", "e", "g">>}
FileNames == {s \o e : s \in Stems, e \in Endings} \cup SeparatedNames

\* os.listdir: distinct names in an arbitrary order.
Listings ==
    {<<>>} \cup {<<f>> : f \in FileNames}
           \cup {p \in FileNames \X FileNames : p[1] # p[2]}

\* The separators: the default '__' and a one-character one.
Patterns == {<<"_", "_">>, <<"_">>}
\* The directory indexed.
ImageDir == <<"r", "e", "f">>

\* ------------------------------------------------------------ test_setup
\* The files check_docker_files looks for in the working directory.
DockerFiles == {"Dockerfile", "docker-compose.yml", "app.py", "utils.py",
                "requirements-jetson.txt", "build_and_run_jetson.sh",
                ".dockerignore"}
ModelFile == "face_embedding_model_CLEAN.h5"
ModelArchitecture == "model_architecture.json"
\* The modules test_python_dependencies imports.
Dependencies == {"numpy", "cv2", "tensorflow", "PIL", "matplotlib", "sklearn"}

\* check_file(filepath, description); files are the files that exist.
check_file(files, filepath) == filepath \in files

\* check_directory(dirpath, description, min_files)
check_directory(exists, filenames, min_files) ==
    IF ~exists
    THEN FALSE
    ELSE Cardinality({i \in 1..Len(filenames) : IsImageName(filenames[i])})
           >= min_files

check_docker_files(files) == \A filename \in DockerFiles : check_file(files, filename)

\* A missing model_architecture.json only warns.
check_model_files(files) == check_file(files, ModelFile)

check_data_files(exists, filenames) == check_directory(exists, filenames, 2)

\* modules are the modules that can be imported.
test_python_dependencies(modules) == \A module \in Dependencies : module \in modules

test_opencv(modules) == "cv2" \in modules

test_tensorflow(modules) == "tensorflow" \in modules

\* loads: keras.models.load_model succeeds on the model file.
test_model_loading(modules, loads) == "tensorflow" \in modules /\ loads

\* cam: what the camera does ("closed", "no_frame", "ok", "error").
CameraOutcomes == {"closed", "no_frame", "ok", "error"}
test_camera(cam) == cam = "ok"

\* cascade: what loading the Haar cascade does ("ok", "empty", "error").
CascadeOutcomes == {"ok", "empty", "error"}
test_haar_cascade(cascade) == cascade = "ok"

\* builds: indexing the references and building the gallery raise nothing.
run_integration_test(modules, loads, builds) ==
    /\ "tensorflow" \in modules
    /\ "cv2" \in modules /\ "numpy" \in modules
    /\ loads
    /\ builds

\* sum(results.values()) == len(results) decides the status returned.
ExitStatus_one_may_fail(results) ==
    IF Cardinality({c \in DOMAIN results : results[c]})
         >= Cardinality(DOMAIN results) - 1
    THEN 0 ELSE 1

ExitStatus(results) ==
    LET passed == Cardinality({c \in DOMAIN results : results[c]})
        total == Cardinality(DOMAIN results)
    IN  IF passed = total THEN 0 ELSE 1

\* The results main starts from: every check False.
NoResults ==
    [docker_files |-> FALSE, model_files |-> FALSE, data_files |-> FALSE,
     python_deps |-> FALSE, opencv |-> FALSE, tensorflow |-> FALSE,
     model_loading |-> FALSE, camera |-> FALSE, haar_cascade |-> FALSE,
     integration |-> FALSE]

\* main(): the results, the checks that were called, the status returned.
test_setup_main(files, exists, filenames, modules, loads, cam, cascade, builds) ==
    LET r1 == [NoResults EXCEPT
                 !.docker_files = check_docker_files(files),
                 !.model_files = check_model_files(files),
                 !.data_files = check_data_files(exists, filenames),
                 !.python_deps = test_python_dependencies(modules),
                 !.opencv = test_opencv(modules),
                 !.tensorflow = test_tensorflow(modules)]
        r2 == IF r1.model_files
              THEN [r1 EXCEPT !.model_loading = test_model_loading(modules, loads)]
              ELSE r1
        r3 == [r2 EXCEPT !.camera = test_camera(cam),
                         !.haar_cascade = test_haar_cascade(cascade)]
        integrate == r3.model_files /\ r3.data_files /\ r3.python_deps
        r4 == IF integrate
              THEN [r3 EXCEPT !.integration =
                                 run_integration_test(modules, loads, builds)]
              ELSE r3
    IN  [results |-> r4,
         called |-> (DOMAIN NoResults \ {"model_loading", "integration"})
                      \cup (IF r1.model_files THEN {"model_loading"} ELSE {})
                      \cup (IF integrate THEN {"integration"} ELSE {}),
         status |-> ExitStatus(r4)]

\* The working directories main is run in: everything present but some of
\* these files.
FileSets ==
    {(DockerFiles \cup {ModelFile, ModelArchitecture}) \ missing :
        missing \in SUBSET {"Dockerfile", ModelFile, ModelArchitecture}}
\* The Python environments: everything installed but some of these modules
\* (test_setup imports cv2 and numpy when it is loaded, so main runs only
\* where they are installed).
ModuleSets == {Dependencies \ missing : missing \in SUBSET {"tensorflow", "sklearn"}}
\* The reference directories: at most two of these files.
ReferenceNames == {<<"a", "_", "_", "a", ".", "j", "p", "g">>,
                   <<"a", "_", "_", ".", "P", "N", "G">>,
                   <<"a", ".", "t", "x", "t">>}
ReferenceListings == {l \in Listings : \A i \in 1..Len(l) : l[i] \in ReferenceNames}

\* ---------------------------------------------------------------- app.py
\* The reference directory stands for REFERENCE_DIR and the model file for
\* MODEL_PATH.  frame_count and fps, which only feed the overlay, are left
\* out.

\* load_model(model_path): the model is returned (TRUE) or the process
\* exits; loads tells whether keras loads the file.
load_model(files, loads) == check_file(files, ModelFile) /\ loads

\* The image file behind a path of the index; images[n] is the content of
\* the file filenames[n].
FileAt(filenames, images, full_path) ==
    images[CHOOSE n \in 1..Len(filenames) :
               os_path_join(ImageDir, filenames[n]) = full_path]

\* The index with every path replaced by the file it names.
Files(reference_images, filenames, images) ==
    [i \in 1..Len(reference_images) |->
        <<reference_images[i][1],
          [j \in 1..Len(reference_images[i][2]) |->
              FileAt(filenames, images, reference_images[i][2][j])]>>]

\* load_gallery(model): sys.exit(1) when the directory is missing or no
\* image is indexed, and the gallery built from the index otherwise.
load_gallery(exists, filenames, images) ==
    IF ~exists
    THEN [exit |-> TRUE, gallery_embeddings |-> <<>>]
    ELSE LET reference_images ==
                 index_images_by_person(exists, ImageDir, filenames, <<"_", "_">>)
         IN  IF reference_images = <<>>
             THEN [exit |-> TRUE, gallery_embeddings |-> <<>>]
             ELSE [exit |-> FALSE,
                   gallery_embeddings |->
                       build_gallery_embeddings(
                           Files(reference_images, filenames, images))]

\* cap.release()
Release(c) == [c EXCEPT !.opened = FALSE]

\* cv2.waitKey(1) & 0xFF in the verification loop: 'q', 's', 'r', or
\* anything else.
AppKeys == {"q", "s", "r", NoKey}

\* What the files of the reference directory may hold: an image of either
\* of two embeddings, or something cv2.imread cannot read.
ReferenceFiles ==
    {[imread |-> "ok", emb |-> <<RatOfInt(0), RatOfInt(0)>>],
     [imread |-> "ok", emb |-> <<RatOfInt(1), RatOfInt(0)>>],
     [imread |-> "none", emb |-> <<RatOfInt(0), RatOfInt(0)>>]}

\* The reference directories: missing, or a listing with the content of
\* each file; a file that is no image by its name holds no image.
ReferenceDirs ==
    {[exists |-> FALSE, listing |-> <<>>, contents |-> <<>>]}
    \cup UNION {{[exists |-> TRUE, listing |-> l, contents |-> c] :
                    c \in {d \in [1..Len(l) -> ReferenceFiles] :
                             \A n \in 1..Len(l) :
                                ~IsImageName(l[n]) => d[n].imread = "none"}} :
                l \in ReferenceListings}

\* ----------------------------------------------------------------- state
VARIABLES
    call,               \* the entry point this behaviour runs
    pc,                 \* its position: "call", ..., "returned", "raised", "exited"
    raised,             \* the exception that ended the call ("" for none)
    \* utils.py
    face,               \* identify_face_from_frame: face_img (None or Some(embedding))
    threshold,          \* identify_face_from_frame: threshold
    gallery,            \* gallery_embeddings: argument of identify, result of build
    result,             \* identify_face_from_frame: the returned triple
    image_paths_dict,   \* build_gallery_embeddings: image_paths_dict
    \* app.initialize_camera
    max_retries,        \* the argument max_retries
    captures,           \* every cv2.VideoCapture constructed so far, in order
    cap,                \* the capture returned (None before)
    exit_code,          \* the status passed to sys.exit (None before)
    \* camera_utils.capture_image
    interactive,        \* the argument interactive
    timeout,            \* the argument timeout, in clock ticks
    webcam_ok,          \* whether cap.isOpened() holds for the capture opened
    elapsed,            \* time.time() - start, in clock ticks
    read_log,           \* every cap.read() so far: [ret, key]
    frame,              \* the local frame (None, or Some(number of the read))
    released,           \* whether cap.release() was called
    file,               \* contents of the file filename (None: not written)
    retval,             \* the value returned (None before)
    \* trt_inference.TRTInfer
    trt_import,         \* the outcome of the module's imports
    engine,             \* the engine file: [exists, deser, has_input]
    shape_given,        \* whether input_shape was passed to __init__
    created,            \* what __init__ has created
    image,              \* predict: the image of the current call
    host_in,            \* host_buffers[input] (None before it is allocated)
    host_out,           \* host_buffers[output]
    dev_in,             \* device_buffers[input]
    dev_out,            \* device_buffers[output]
    stream,             \* the CUDA stream: operations enqueued and not yet done
    outputs,            \* predict: the local outputs[name] (None before)
    predict_ret,        \* the value predict returned last (None before)
    ncalls,             \* the number of predict calls that returned
    \* the file system
    dir_exists,         \* os.path.exists of the image directory
    listing,            \* os.listdir of the image directory
    contents,           \* contents[n]: the file listing[n], as an image file
    \* utils.index_images_by_person
    pattern,            \* the argument pattern
    images_by_person,   \* the mapping returned
    \* test_setup.main
    files,              \* the files that exist in the working directory
    modules,            \* the modules that can be imported
    model_loads,        \* whether keras loads the model file
    camera,             \* what camera 0 does when it is opened and read
    cascade,            \* what loading the Haar cascade does
    builds,             \* whether building the gallery raises nothing
    results,            \* main: the dict results
    called,             \* main: the checks that were called
    status,             \* main: the value returned (None before)
    \* app.main
    snapshots           \* whether a snapshot was written to OUTPUT_DIR

idVars == <<face, threshold, gallery, result, image_paths_dict>>
camVars == <<max_retries, captures, cap, exit_code>>
capVars == <<interactive, timeout, webcam_ok, elapsed, read_log, frame, released,
             file, retval>>
trtVars == <<trt_import, engine, shape_given, created, image, host_in, host_out,
             dev_in, dev_out, stream, outputs, predict_ret, ncalls>>
fsVars == <<dir_exists, listing, contents>>
indexVars == <<pattern, images_by_person>>
setupVars == <<files, modules, model_loads, camera, cascade, builds, results,
               called, status>>
appVars == <<snapshots>>
vars == <<call, pc, raised, idVars, camVars, capVars, trtVars, fsVars, indexVars,
          setupVars, appVars>>

NoResult == <<"", Inf, "">>

IdleIdentify ==
    /\ face = None
    /\ threshold = DefaultThreshold
    /\ gallery = <<>>
    /\ result = NoResult
    /\ image_paths_dict = <<>>

IdleCamera ==
    /\ max_retries = DefaultMaxRetries
    /\ captures = <<>>
    /\ cap = None
    /\ exit_code = None

IdleCapture ==
    /\ interactive = FALSE
    /\ timeout = 0
    /\ webcam_ok = FALSE
    /\ elapsed = 0
    /\ read_log = <<>>
    /\ frame = None
    /\ released = FALSE
    /\ file = None
    /\ retval = None

IdleTrt ==
    /\ trt_import = "ok"
    /\ engine = [exists |-> FALSE, deser |-> FALSE, has_input |-> FALSE]
    /\ shape_given = FALSE
    /\ created = {}
    /\ image = 0
    /\ host_in = None
    /\ host_out = None
    /\ dev_in = None
    /\ dev_out = None
    /\ stream = <<>>
    /\ outputs = None
    /\ predict_ret = None
    /\ ncalls = 0

IdleFs ==
    /\ dir_exists = FALSE
    /\ listing = <<>>
    /\ contents = <<>>

IdleApp == snapshots = FALSE

IdleIndex ==
    /\ pattern = <<"_", "_">>
    /\ images_by_person = <<>>

IdleSetup ==
    /\ files = {}
    /\ modules = {}
    /\ model_loads = FALSE
    /\ camera = "closed"
    /\ cascade = "empty"
    /\ builds = FALSE
    /\ results = NoResults
    /\ called = {}
    /\ status = None

InitIdentify ==
    /\ call = "identify_face_from_frame"
    /\ pc = "call"
    /\ raised = ""
    /\ face \in {None} \cup {Some(e) : e \in QueryEmbeddings}
    /\ threshold \in Thresholds
    /\ gallery \in Galleries
    /\ result = NoResult
    /\ image_paths_dict = <<>>
    /\ IdleCamera
    /\ IdleCapture
    /\ IdleTrt
    /\ IdleFs
    /\ IdleIndex
    /\ IdleSetup
    /\ IdleApp

InitBuild ==
    /\ call = "build_gallery_embeddings"
    /\ pc = "call"
    /\ raised = ""
    /\ image_paths_dict \in ImagePathDicts
    /\ face = None
    /\ threshold = DefaultThreshold
    /\ gallery = <<>>
    /\ result = NoResult
    /\ IdleCamera
    /\ IdleCapture
    /\ IdleTrt
    /\ IdleFs
    /\ IdleIndex
    /\ IdleSetup
    /\ IdleApp

InitCamera ==
    /\ call = "initialize_camera"
    /\ pc = "call"
    /\ raised = ""
    /\ max_retries \in 0..MaxRetries
    /\ captures = <<>>
    /\ cap = None
    /\ exit_code = None
    /\ IdleIdentify
    /\ IdleCapture
    /\ IdleTrt
    /\ IdleFs
    /\ IdleIndex
    /\ IdleSetup
    /\ IdleApp

InitCapture ==
    /\ call = "capture_image"
    /\ pc = "call"
    /\ raised = ""
    /\ interactive \in BOOLEAN
    /\ timeout \in 0..MaxTimeout
    /\ webcam_ok \in BOOLEAN
    /\ elapsed = 0
    /\ read_log = <<>>
    /\ frame = None
    /\ released = FALSE
    /\ file = None
    /\ retval = None
    /\ IdleIdentify
    /\ IdleCamera
    /\ IdleTrt
    /\ IdleFs
    /\ IdleIndex
    /\ IdleSetup
    /\ IdleApp

InitTrt ==
    /\ call = "TRTInfer"
    /\ pc = "call"
    /\ raised = ""
    /\ trt_import \in ImportOutcomes
    /\ engine \in [exists : BOOLEAN, deser : BOOLEAN, has_input : BOOLEAN]
    /\ engine.exists \/ (~engine.deser /\ ~engine.has_input)
    /\ shape_given \in BOOLEAN
    /\ created = {}
    /\ image = 0
    /\ host_in = None
    /\ host_out = None
    /\ dev_in = None
    /\ dev_out = None
    /\ stream = <<>>
    /\ outputs = None
    /\ predict_ret = None
    /\ ncalls = 0
    /\ IdleIdentify
    /\ IdleCamera
    /\ IdleCapture
    /\ IdleFs
    /\ IdleIndex
    /\ IdleSetup
    /\ IdleApp

InitIndex ==
    /\ call = "index_images_by_person"
    /\ pc = "call"
    /\ raised = ""
    /\ dir_exists \in BOOLEAN
    /\ listing \in (IF dir_exists THEN Listings ELSE {<<>>})
    /\ contents = <<>>
    /\ pattern \in Patterns
    /\ images_by_person = <<>>
    /\ IdleIdentify
    /\ IdleCamera
    /\ IdleCapture
    /\ IdleTrt
    /\ IdleSetup
    /\ IdleApp

InitSetup ==
    /\ call = "test_setup.main"
    /\ pc = "call"
    /\ raised = ""
    /\ files \in FileSets
    /\ modules \in ModuleSets
    /\ dir_exists \in BOOLEAN
    /\ listing \in (IF dir_exists THEN ReferenceListings ELSE {<<>>})
    /\ contents = <<>>
    /\ model_loads \in BOOLEAN
    /\ camera \in CameraOutcomes
    /\ cascade \in CascadeOutcomes
    /\ builds \in BOOLEAN
    /\ results = NoResults
    /\ called = {}
    /\ status = None
    /\ IdleIdentify
    /\ IdleCamera
    /\ IdleCapture
    /\ IdleTrt
    /\ IdleIndex
    /\ IdleApp

InitApp ==
    /\ call = "app.main"
    /\ pc = "call"
    /\ raised = ""
    /\ files \in {{ModelFile}, {}}
    /\ model_loads \in BOOLEAN
    /\ \E d \in ReferenceDirs :
         /\ dir_exists = d.exists
         /\ listing = d.listing
         /\ contents = d.contents
    /\ snapshots = FALSE
    /\ modules = {}
    /\ camera = "closed"
    /\ cascade = "empty"
    /\ builds = FALSE
    /\ results = NoResults
    /\ called = {}
    /\ status = None
    /\ IdleIdentify
    /\ IdleCamera
    /\ IdleCapture
    /\ IdleTrt
    /\ IdleIndex

\* The calls that wait on the camera.
CameraInit ==
    \/ InitCamera
    \/ InitCapture

Init ==
    \/ InitIdentify
    \/ InitBuild
    \/ CameraInit
    \/ InitTrt
    \/ InitIndex
    \/ InitSetup
    \/ InitApp

\* identify_face_from_frame(face_img, model, gallery_embeddings, threshold)
IdentifyFrame ==
    /\ call = "identify_face_from_frame"
    /\ pc = "call"
    /\ result' = identify_face_from_frame(face, gallery, threshold)
    /\ pc' = "returned"
    /\ UNCHANGED <<fsVars, indexVars, setupVars, appVars>>
    /\ UNCHANGED <<call, raised, face, threshold, gallery, image_paths_dict,
                   camVars, capVars, trtVars>>

\* build_gallery_embeddings(model, image_paths_dict)
BuildGallery ==
    /\ call = "build_gallery_embeddings"
    /\ pc = "call"
    /\ gallery' = build_gallery_embeddings(image_paths_dict)
    /\ pc' = "returned"
    /\ UNCHANGED <<fsVars, indexVars, setupVars, appVars>>
    /\ UNCHANGED <<call, raised, face, threshold, result, image_paths_dict,
                   camVars, capVars, trtVars>>

\* index_images_by_person(image_dir, pattern)
IndexImages ==
    /\ call = "index_images_by_person"
    /\ pc = "call"
    /\ images_by_person' =
           index_images_by_person(dir_exists, ImageDir, listing, pattern)
    /\ pc' = "returned"
    /\ UNCHANGED <<call, raised, fsVars, pattern, idVars, camVars, capVars,
                   trtVars, setupVars, appVars>>

\* test_setup.main()
SetupMain ==
    /\ call = "test_setup.main"
    /\ pc = "call"
    /\ LET ret == test_setup_main(files, dir_exists, listing, modules,
                                  model_loads, camera, cascade, builds)
       IN  /\ results' = ret.results
           /\ called' = ret.called
           /\ status' = Some(ret.status)
    /\ pc' = "returned"
    /\ UNCHANGED <<call, raised, fsVars, indexVars, idVars, camVars, capVars,
                   trtVars, files, modules, model_loads, camera, cascade, builds,
                   appVars>>

\* ------------------------------------------------------------- app.main
\* main() up to the model: os.makedirs(OUTPUT_DIR), load_model(MODEL_PATH).
AppLoadModel ==
    /\ call = "app.main"
    /\ pc = "call"
    /\ IF load_model(files, model_loads)
       THEN pc' = "load_gallery" /\ UNCHANGED exit_code
       ELSE pc' = "exited" /\ exit_code' = Some(1)
    /\ UNCHANGED <<call, raised, idVars, max_retries, captures, cap, capVars,
                   trtVars, fsVars, indexVars, setupVars, appVars>>

\* gallery_embeddings = load_gallery(model), at start-up.
AppLoadGallery ==
    /\ call = "app.main"
    /\ pc = "load_gallery"
    /\ LET loaded == load_gallery(dir_exists, listing, contents)
       IN  IF loaded.exit
           THEN /\ pc' = "exited"
                /\ exit_code' = Some(1)
                /\ UNCHANGED gallery
           ELSE /\ pc' = "initialize_camera"
                /\ gallery' = loaded.gallery_embeddings
                /\ UNCHANGED exit_code
    /\ UNCHANGED <<call, raised, face, threshold, result, image_paths_dict,
                   max_retries, captures, cap, capVars, trtVars, fsVars,
                   indexVars, setupVars, appVars>>

\* cap = initialize_camera(CAMERA_INDEX): one iteration of its loop.
AppCameraAttempt ==
    /\ call = "app.main"
    /\ pc = "initialize_camera"
    /\ AttemptsLeft(Len(captures), max_retries)
    /\ \E opened \in BOOLEAN :
         LET new == VideoCapture(opened)
         IN  IF isOpened(new)
             THEN /\ captures' = Append(captures, Configure(new))
                  /\ cap' = Some(Configure(new))
                  /\ pc' = "loop"
             ELSE /\ captures' = Append(captures, new)
                  /\ UNCHANGED <<cap, pc>>
    /\ UNCHANGED <<call, raised, idVars, max_retries, exit_code, capVars, trtVars,
                   fsVars, indexVars, setupVars, appVars>>

\* initialize_camera ran out of attempts: sys.exit(1).
AppCameraGiveUp ==
    /\ call = "app.main"
    /\ pc = "initialize_camera"
    /\ ~AttemptsLeft(Len(captures), max_retries)
    /\ exit_code' = Some(1)
    /\ pc' = "exited"
    /\ UNCHANGED <<call, raised, idVars, max_retries, captures, cap, capVars,
                   trtVars, fsVars, indexVars, setupVars, appVars>>

\* One iteration of the loop of run_verification_loop: a frame is read (the
\* loop ends when there is none); a face detected in it is identified
\* against gallery_embeddings; the key pressed ends the loop ('q'), writes
\* a snapshot ('s') or reloads the gallery ('r'), which may exit.  When the
\* loop ends the capture is released and main returns.
AppFrame ==
    /\ call = "app.main"
    /\ pc = "loop"
    /\ \E ret \in BOOLEAN, cropped_face \in {None} \cup {Some(e) : e \in QueryEmbeddings},
          key \in AppKeys :
         IF ~ret
         THEN /\ pc' = "returned"
              /\ cap' = Some(Release(cap[1]))
              /\ UNCHANGED <<result, gallery, exit_code, snapshots>>
         ELSE /\ result' = IF cropped_face # None
                           THEN identify_face_from_frame(cropped_face, gallery,
                                                         threshold)
                           ELSE result
              /\ CASE key = "q" ->
                        /\ pc' = "returned"
                        /\ cap' = Some(Release(cap[1]))
                        /\ UNCHANGED <<gallery, exit_code, snapshots>>
                   [] key = "s" ->
                        /\ snapshots' = TRUE
                        /\ UNCHANGED <<pc, cap, gallery, exit_code>>
                   [] key = "r" ->
                        LET loaded == load_gallery(dir_exists, listing, contents)
                        IN  IF loaded.exit
                            THEN /\ pc' = "exited"
                                 /\ exit_code' = Some(1)
                                 /\ cap' = Some(Release(cap[1]))
                                 /\ UNCHANGED <<gallery, snapshots>>
                            ELSE /\ gallery' = loaded.gallery_embeddings
                                 /\ UNCHANGED <<pc, cap, exit_code, snapshots>>
                   [] OTHER ->
                        UNCHANGED <<pc, cap, gallery, exit_code, snapshots>>
    /\ UNCHANGED <<call, raised, face, threshold, image_paths_dict, max_retries,
                   captures, capVars, trtVars, fsVars, indexVars, setupVars>>

\* The reference directory is changed while the loop runs.
ReferenceDirChanges ==
    /\ call = "app.main"
    /\ pc = "loop"
    /\ \E d \in ReferenceDirs :
         /\ dir_exists' = d.exists
         /\ listing' = d.listing
         /\ contents' = d.contents
    /\ UNCHANGED <<call, pc, raised, idVars, camVars, capVars, trtVars,
                   indexVars, setupVars, appVars>>

AppNext ==
    \/ AppLoadModel
    \/ AppLoadGallery
    \/ AppCameraAttempt
    \/ AppCameraGiveUp
    \/ AppFrame
    \/ ReferenceDirChanges

\* ---------------------------------------------------- initialize_camera
\* One iteration of the for loop: a capture is constructed; if it reports
\* opened its properties are set and it is returned, otherwise the loop
\* sleeps and goes on.
CameraAttempt ==
    /\ call = "initialize_camera"
    /\ pc = "call"
    /\ AttemptsLeft(Len(captures), max_retries)
    /\ \E opened \in BOOLEAN :
         LET new == VideoCapture(opened)
         IN  IF isOpened(new)
             THEN /\ captures' = Append(captures, Configure(new))
                  /\ cap' = Some(Configure(new))
                  /\ pc' = "returned"
             ELSE /\ captures' = Append(captures, new)
                  /\ UNCHANGED <<cap, pc>>
    /\ UNCHANGED <<fsVars, indexVars, setupVars, appVars>>
    /\ UNCHANGED <<call, raised, max_retries, exit_code, idVars, capVars, trtVars>>

\* The loop ended without a return: sys.exit(1).
CameraGiveUp ==
    /\ call = "initialize_camera"
    /\ pc = "call"
    /\ ~AttemptsLeft(Len(captures), max_retries)
    /\ exit_code' = Some(1)
    /\ pc' = "exited"
    /\ UNCHANGED <<fsVars, indexVars, setupVars, appVars>>
    /\ UNCHANGED <<call, raised, max_retries, captures, cap, idVars, capVars,
                   trtVars>>

\* -------------------------------------------------------- capture_image
\* cap = cv2.VideoCapture(camera_index); raise if it is not opened;
\* frame = None; start = time.time().
CaptureOpen ==
    /\ call = "capture_image"
    /\ pc = "call"
    /\ IF isOpened(VideoCapture(webcam_ok))
       THEN pc' = "loop" /\ UNCHANGED raised
       ELSE pc' = "raised" /\ raised' = "Could not open webcam"
    /\ UNCHANGED <<fsVars, indexVars, setupVars, appVars>>
    /\ UNCHANGED <<call, idVars, camVars, capVars, trtVars>>

\* The clock advances while the loop runs.
Tick ==
    /\ call = "capture_image"
    /\ pc = "loop"
    /\ elapsed < timeout
    /\ elapsed' = elapsed + 1
    /\ UNCHANGED <<fsVars, indexVars, setupVars, appVars>>
    /\ UNCHANGED <<call, pc, raised, idVars, camVars, trtVars, interactive,
                   timeout, webcam_ok, read_log, frame, released, file, retval>>

\* One iteration of the while loop whose test holds: a read, and in
\* interactive mode the preview and the key.  ret is what cap.read()
\* reports, key what cv2.waitKey(1) returns when it is called.
CaptureRead ==
    /\ call = "capture_image"
    /\ pc = "loop"
    /\ LoopTest(elapsed, timeout)
    /\ Len(read_log) < MaxReads
    /\ \E ret \in BOOLEAN, key \in Keys :
         /\ key # NoKey => ret /\ interactive
         /\ read_log' = Append(read_log, [ret |-> ret, key |-> key])
         /\ frame' = IF ret THEN Some(Len(read_log) + 1) ELSE frame
         /\ pc' = AfterRead(interactive, ret, key)
         /\ IF AfterRead(interactive, ret, key) = "raised"
            THEN raised' = "Capture cancelled by user" /\ released' = TRUE
            ELSE UNCHANGED <<raised, released>>
    /\ UNCHANGED <<fsVars, indexVars, setupVars, appVars>>
    /\ UNCHANGED <<call, idVars, camVars, trtVars, interactive, timeout,
                   webcam_ok, elapsed, file, retval>>

\* The while test fails: the loop ends.
CaptureLoopExit ==
    /\ call = "capture_image"
    /\ pc = "loop"
    /\ ~LoopTest(elapsed, timeout)
    /\ pc' = "after"
    /\ UNCHANGED <<fsVars, indexVars, setupVars, appVars>>
    /\ UNCHANGED <<call, raised, idVars, camVars, capVars, trtVars>>

\* After the loop: cap.release(); raise if frame is None; otherwise
\* cv2.imwrite(filename, frame), whose result is not looked at, and
\* return filename.
CaptureFinish ==
    /\ call = "capture_image"
    /\ pc = "after"
    /\ released' = TRUE
    /\ IF frame = None
       THEN /\ pc' = "raised"
            /\ raised' = "Capture failed: no frame received from webcam"
            /\ UNCHANGED <<file, retval>>
       ELSE \E written \in ImwriteOutcomes :
              /\ file' = imwrite(file, frame, written)
              /\ retval' = Some(Filename)
              /\ pc' = "returned"
              /\ UNCHANGED raised
    /\ UNCHANGED <<fsVars, indexVars, setupVars, appVars>>
    /\ UNCHANGED <<call, idVars, camVars, trtVars, interactive, timeout,
                   webcam_ok, elapsed, read_log, frame>>

\* -------------------------------------------------------------- TRTInfer
\* TRTInfer(engine_path, input_shape): __init__ raises, or leaves an object
\* whose buffers are not allocated yet.
TrtConstruct ==
    /\ call = "TRTInfer"
    /\ pc = "call"
    /\ LET r == TRTInfer_init(trt_import, engine.exists, engine.deser,
                              engine.has_input, shape_given)
       IN  /\ created' = r.created
           /\ raised' = r.raised
           /\ pc' = IF r.raised = "" THEN "ready" ELSE "raised"
    /\ UNCHANGED <<fsVars, indexVars, setupVars, appVars>>
    /\ UNCHANGED <<call, idVars, camVars, capVars, trt_import, engine, shape_given,
                   image, host_in, host_out, dev_in, dev_out, stream, outputs,
                   predict_ret, ncalls>>

\* predict(image) up to the inference: without an input binding it raises;
\* otherwise the buffers are allocated on the first call, the input is
\* copied into the host buffer, and the input copy and the inference are
\* enqueued on the stream.
PredictEnqueue ==
    /\ call = "TRTInfer"
    /\ pc = "ready"
    /\ ncalls < MaxPredicts
    /\ \E img \in TrtImages, fresh_host \in Uninitialized, fresh_dev \in Uninitialized :
         /\ image' = img
         /\ IF ~engine.has_input
            THEN /\ pc' = "raised"
                 /\ raised' = NoInputBinding
                 /\ UNCHANGED <<host_in, host_out, dev_in, dev_out, stream, outputs>>
            ELSE /\ host_in' = Some(img)
                 /\ host_out' = IF host_out = None THEN Some(fresh_host) ELSE host_out
                 /\ dev_in' = IF dev_in = None THEN Some(0) ELSE dev_in
                 /\ dev_out' = IF dev_out = None THEN Some(fresh_dev) ELSE dev_out
                 /\ stream' = stream \o InputOps
                 /\ outputs' = None
                 /\ pc' = "enqueued"
                 /\ UNCHANGED raised
    /\ UNCHANGED <<fsVars, indexVars, setupVars, appVars>>
    /\ UNCHANGED <<call, idVars, camVars, capVars, trt_import, engine, shape_given,
                   created, predict_ret, ncalls>>

\* cuda.memcpy_dtoh_async(host_out, device_buffers[name], stream)
PredictCopyBack ==
    /\ call = "TRTInfer"
    /\ pc = "enqueued"
    /\ stream' = stream \o OutputOps
    /\ pc' = "copying"
    /\ UNCHANGED <<fsVars, indexVars, setupVars, appVars>>
    /\ UNCHANGED <<call, raised, idVars, camVars, capVars, trt_import, engine,
                   shape_given, created, image, host_in, host_out, dev_in, dev_out,
                   outputs, predict_ret, ncalls>>

\* outputs[name] = np.array(host_out).copy()
PredictRead ==
    /\ call = "TRTInfer"
    /\ pc = "copying"
    /\ outputs' = host_out
    /\ pc' = "read"
    /\ UNCHANGED <<fsVars, indexVars, setupVars, appVars>>
    /\ UNCHANGED <<call, raised, idVars, camVars, capVars, trt_import, engine,
                   shape_given, created, image, host_in, host_out, dev_in, dev_out,
                   stream, predict_ret, ncalls>>

\* self.stream.synchronize() waits until the stream is empty; then the single
\* output is returned.
PredictSynchronize ==
    /\ call = "TRTInfer"
    /\ pc = "read"
    /\ stream = <<>>
    /\ predict_ret' = outputs
    /\ ncalls' = ncalls + 1
    /\ pc' = "ready"
    /\ UNCHANGED <<fsVars, indexVars, setupVars, appVars>>
    /\ UNCHANGED <<call, raised, idVars, camVars, capVars, trt_import, engine,
                   shape_given, created, image, host_in, host_out, dev_in, dev_out,
                   stream, outputs>>

\* The device carries out the first operation of the stream, at its own pace.
StreamStep ==
    /\ call = "TRTInfer"
    /\ stream # <<>>
    /\ LET op == Head(stream)
       IN  /\ dev_in' = IF op[1] = "htod" THEN host_in ELSE dev_in
           /\ dev_out' = IF op[1] = "exec" THEN Some(Engine(dev_in[1])) ELSE dev_out
           /\ host_out' = IF op[1] = "dtoh"
                          THEN Some([host_out[1] EXCEPT ![op[2]] = dev_out[1][op[2]]])
                          ELSE host_out
    /\ stream' = Tail(stream)
    /\ UNCHANGED <<fsVars, indexVars, setupVars, appVars>>
    /\ UNCHANGED <<call, pc, raised, idVars, camVars, capVars, trt_import, engine,
                   shape_given, created, image, host_in, outputs, predict_ret, ncalls>>

TrtNext ==
    \/ TrtConstruct
    \/ PredictEnqueue
    \/ PredictCopyBack
    \/ PredictRead
    \/ PredictSynchronize
    \/ StreamStep

CameraNext ==
    \/ CameraAttempt
    \/ CameraGiveUp
    \/ CaptureOpen
    \/ Tick
    \/ CaptureRead
    \/ CaptureLoopExit
    \/ CaptureFinish

Next ==
    \/ IdentifyFrame
    \/ BuildGallery
    \/ IndexImages
    \/ SetupMain
    \/ CameraNext
    \/ TrtNext
    \/ AppNext

Spec == Init /\ [][Next]_vars

\* The calls that wait on the camera, by themselves: the process keeps
\* running and the clock keeps advancing.
CameraSpec == CameraInit /\ [][CameraNext]_vars /\ WF_vars(CameraNext)

\* ================================================================ claims

\* The root sqrt(r) is strictly below the number t, in integers.
RootBelow(r, t) == t[1] > 0 /\ r[1] * t[2] * t[2] < t[1] * t[1] * r[2]

\* a <= b for distances.
DistLe(a, b) == IsInf(b) \/ (~IsInf(a) /\ a[2][1] * b[2][2] <= b[2][1] * a[2][2])

\* The distances from the query q to the entries of the gallery g.
GalleryDistances(q, g) == {euclidean_distance(q, g[i][2]) : i \in 1..Len(g)}

\* d is the minimum of the distances from q to the entries of g (infinity
\* for the empty gallery).
IsMinimumDistance(d, q, g) ==
    IF g = <<>> THEN d = Inf
    ELSE /\ d \in GalleryDistances(q, g)
         /\ \A e \in GalleryDistances(q, g) : DistLe(d, e)

Identified == call = "identify_face_from_frame" /\ pc = "returned"

\* C1: identify_face returns status "MATCH" if and only if the minimum
\* Euclidean distance from the query to the gallery is strictly less than the
\* threshold; a minimum equal to the threshold, or larger, gives "REJECT".
C1_MatchIffBelowThreshold ==
    (Identified /\ face # None) =>
        /\ result[3] \in {"MATCH", "REJECT"}
        /\ result[3] = "MATCH" <=>
             \E d \in GalleryDistances(face[1], gallery) :
                /\ IsMinimumDistance(d, face[1], gallery)
                /\ RootBelow(d[2], threshold)

\* C1 witness: the minimum distance equals a positive threshold and the
\* status is REJECT.
C1_Witness ==
    /\ Identified
    /\ face # None
    /\ gallery # <<>>
    /\ threshold[1] > 0
    /\ IsMinimumDistance(Sqrt(RatMul(threshold, threshold)), face[1], gallery)
    /\ result[3] = "REJECT"

\* C2: the returned person id is consistent with the status: on MATCH it is
\* a key of the gallery whose embedding is at the minimum distance from the
\* query, on REJECT it is exactly "UNKNOWN".
C2_IdConsistentWithStatus ==
    Identified =>
        /\ result[3] \in {"MATCH", "REJECT"}
        /\ result[3] = "MATCH" =>
             /\ face # None
             /\ \E i \in 1..Len(gallery) :
                  /\ gallery[i][1] = result[1]
                  /\ IsMinimumDistance(euclidean_distance(face[1], gallery[i][2]),
                                       face[1], gallery)
        /\ result[3] = "REJECT" => result[1] = "UNKNOWN"

\* C2 witness: a face was compared with a non-empty gallery and rejected, so
\* a nearest person exists and is not returned.
C2_Witness ==
    /\ Identified
    /\ face # None
    /\ gallery # <<>>
    /\ result[3] = "REJECT"
    /\ result[1] = "UNKNOWN"
    /\ ~IsInf(result[2])

\* C3: the returned distance is the minimum over all gallery entries of the
\* Euclidean distance to the query, on MATCH and on REJECT alike; for an
\* empty gallery the result is ("UNKNOWN", infinity, "REJECT").
C3_DistanceIsMinimum ==
    (Identified /\ face # None) =>
        /\ IsMinimumDistance(result[2], face[1], gallery)
        /\ gallery = <<>> => result = <<"UNKNOWN", Inf, "REJECT">>

\* C3 witness: a rejected query against two entries at different distances;
\* the distance returned is finite and is the smaller one, which belongs to
\* the second entry.
C3_Witness ==
    /\ Identified
    /\ face # None
    /\ Len(gallery) = 2
    /\ result[3] = "REJECT"
    /\ result[2] = euclidean_distance(face[1], gallery[2][2])
    /\ result[2] # euclidean_distance(face[1], gallery[1][2])

CameraCalled == call = "initialize_camera"
CameraDone == pc \in {"returned", "exited"}

\* initialize_camera at every step: no more than max_retries captures were
\* constructed, only the last of them can be opened, a capture is returned
\* only if it is that one and it is opened, and the process exits, with
\* status 1, only after max_retries captures that did not open.
C4_Inv ==
    CameraCalled =>
        /\ pc \in {"call", "returned", "exited"}
        /\ Len(captures) <= max_retries
        /\ \A i \in 1..(Len(captures) - 1) : ~isOpened(captures[i])
        /\ pc = "call" =>
             /\ cap = None
             /\ exit_code = None
             /\ \A i \in 1..Len(captures) : ~isOpened(captures[i])
        /\ pc = "returned" =>
             /\ captures # <<>>
             /\ cap = Some(captures[Len(captures)])
             /\ isOpened(cap[1])
             /\ exit_code = None
        /\ pc = "exited" =>
             /\ exit_code = Some(1)
             /\ cap = None
             /\ Len(captures) = max_retries
             /\ \A i \in 1..Len(captures) : ~isOpened(captures[i])

\* C4: initialize_camera is a bounded retry loop: at most max_retries
\* attempts, the first capture that reports opened is returned with no
\* further attempt, max_retries failed attempts end the process with exit
\* status 1, and every call ends: it returns or it exits.
C4_BoundedRetry == []C4_Inv /\ (CameraCalled ~> (CameraCalled /\ CameraDone))

\* C4 witness: the capture opened on the last attempt allowed, after
\* failures, and was returned.
C4_Witness ==
    /\ CameraCalled
    /\ pc = "returned"
    /\ max_retries > 1
    /\ Len(captures) = max_retries
    /\ isOpened(cap[1])

TrtCalled == call = "TRTInfer"

\* C5: predict is synchronous: the output it returns is read from the host
\* output buffer only after the device-to-host copy enqueued in this call
\* has completed, so the value read, and returned, is the result of this
\* call's inference.
C5_PredictReturnsThisCallsOutput ==
    TrtCalled =>
        /\ pc = "read" => outputs = Some(Engine(image))
        /\ (pc = "ready" /\ ncalls > 0) => predict_ret = Some(Engine(image))

\* C6: constructing TRTInfer raises RuntimeError whenever the imports failed,
\* whether or not the engine file exists, and FileNotFoundError when the
\* imports succeeded and the engine path does not exist; in both cases no
\* engine, context, stream or buffer is created.
C6_ConstructorRaises ==
    (TrtCalled /\ pc # "call") =>
        /\ trt_import # "ok" =>
             /\ pc = "raised"
             /\ raised = ImportFailed
        /\ (trt_import = "ok" /\ ~engine.exists) =>
             /\ pc = "raised"
             /\ raised = EngineNotFound
        /\ (trt_import # "ok" \/ ~engine.exists) =>
             /\ created = {}
             /\ stream = <<>>
             /\ host_in = None /\ host_out = None
             /\ dev_in = None /\ dev_out = None

\* C6 witness: the imports failed and the engine file does not exist either;
\* the constructor raised the RuntimeError of the imports.
C6_Witness ==
    /\ TrtCalled
    /\ pc = "raised"
    /\ trt_import # "ok"
    /\ ~engine.exists
    /\ raised = ImportFailed
    /\ created = {}

CaptureCalled == call = "capture_image"
CaptureDone == pc \in {"returned", "raised"}
KeyPressed(k) == \E i \in 1..Len(read_log) : read_log[i].key = k

\* C7: on the local path capture_image either returns the filename after
\* writing exactly one captured frame to it, or raises without writing any
\* file; it raises when the webcam cannot be opened and when no frame was
\* received before the timeout.
C7_ReturnsWrittenFileOrRaises ==
    CaptureCalled =>
        /\ pc = "returned" =>
             /\ retval = Some(Filename)
             /\ frame # None
             /\ file = frame
        /\ pc = "raised" => file = None
        /\ (CaptureDone /\ ~webcam_ok) => raised = "Could not open webcam"
        /\ (CaptureDone /\ webcam_ok /\ frame = None) =>
             raised = "Capture failed: no frame received from webcam"

\* C8: when interactive is True an image is written to the file only after
\* the user pressed 'c', and pressing 'q' raises 'Capture cancelled by user'
\* with no file written.
C8_InteractiveWritesOnlyAfterC ==
    (CaptureCalled /\ interactive) =>
        /\ file # None => KeyPressed("c")
        /\ KeyPressed("q") =>
             /\ pc = "raised"
             /\ raised = "Capture cancelled by user"
             /\ file = None

\* C9: when interactive is False the read loop stops at the first successful
\* read and that frame is the one written; failed reads are retried only
\* while less than timeout has elapsed; the call ends with a file written or
\* with the 'no frame received' exception.
C9_FirstFrameWrittenOrNoFrame ==
    (CaptureCalled /\ ~interactive) =>
        /\ \A i \in 1..(Len(read_log) - 1) : ~read_log[i].ret
        /\ frame # None =>
             /\ frame = Some(Len(read_log))
             /\ read_log[Len(read_log)].ret
             /\ pc # "loop"
        /\ read_log # <<>> => timeout > 0
        /\ (CaptureDone /\ webcam_ok) =>
             \/ pc = "returned" /\ frame # None /\ file = frame
             \/ /\ pc = "raised"
                /\ frame = None
                /\ file = None
                /\ raised = "Capture failed: no frame received from webcam"

\* The indices of the paths whose image loads.
Loaded(paths) == {j \in 1..Len(paths) : paths[j].imread = "ok"}

RECURSIVE SumLoaded(_, _, _)
SumLoaded(paths, S, k) ==
    IF S = {} THEN RatOfInt(0)
    ELSE LET j == CHOOSE x \in S : TRUE
         IN  RatAdd(paths[j].emb[k], SumLoaded(paths, S \ {j}, k))

Built == call = "build_gallery_embeddings" /\ pc = "returned"

\* C10: build_gallery_embeddings returns, per person, the element-wise mean
\* of the embeddings of exactly the person's images that loaded; a person
\* has an entry if and only if at least one image loaded; every gallery key
\* is a key of the input mapping.
C10_GalleryIsMeanOfLoaded ==
    Built =>
        /\ Distinct(gallery)
        /\ \A i \in 1..Len(gallery) :
             \E p \in 1..Len(image_paths_dict) :
                /\ image_paths_dict[p][1] = gallery[i][1]
                /\ LET paths == image_paths_dict[p][2]
                       n == Cardinality(Loaded(paths))
                   IN  /\ n > 0
                       /\ \A k \in 1..Len(gallery[i][2]) :
                            RatMul(gallery[i][2][k], RatOfInt(n))
                              = SumLoaded(paths, Loaded(paths), k)
        /\ \A p \in 1..Len(image_paths_dict) :
             Loaded(image_paths_dict[p][2]) # {} =>
                \E i \in 1..Len(gallery) : gallery[i][1] = image_paths_dict[p][1]

\* C10 witness: one person with an image that loaded and one that did not,
\* another person none of whose images loaded, and a gallery of one entry.
C10_Witness ==
    /\ Built
    /\ Len(image_paths_dict) = 2
    /\ Len(gallery) = 1
    /\ \E p \in 1..2 :
         /\ image_paths_dict[p][1] = gallery[1][1]
         /\ Len(image_paths_dict[p][2]) = 2
         /\ Cardinality(Loaded(image_paths_dict[p][2])) = 1
         /\ gallery[1][2] # <<RatOfInt(0), RatOfInt(0)>>
    /\ \E p \in 1..2 :
         /\ image_paths_dict[p][2] # <<>>
         /\ Loaded(image_paths_dict[p][2]) = {}

Indexed == call = "index_images_by_person" /\ pc = "returned"

\* The name ends, case-insensitively, in .jpg, .jpeg or .png.
EndsInImageExtension(f) ==
    \E suffix \in ImageSuffixes :
        /\ Len(f) >= Len(suffix)
        /\ \A k \in 1..Len(suffix) :
             LowerChar(f[Len(f) - Len(suffix) + k]) = suffix[k]

\* The prefixes of f that the pattern follows immediately.
PrefixesBefore(f, p) ==
    {n \in 0..(Len(f) - Len(p)) : \A k \in 1..Len(p) : f[n + k] = p[k]}

\* The name without its extension.  The extension is the last dot and what
\* follows it; the dots a name begins with start no extension.
WithoutExtension(f) ==
    LET cuts == {n \in 1..Len(f) :
                    /\ f[n] = "."
                    /\ \A m \in (n + 1)..Len(f) : f[m] # "."
                    /\ \E m \in 1..(n - 1) : f[m] # "."}
    IN  IF cuts = {} THEN f
        ELSE SubSeq(f, 1, (CHOOSE n \in cuts : TRUE) - 1)

\* The key the claim gives a file name.
KeyOf(f, p) ==
    IF PrefixesBefore(f, p) # {}
    THEN SubSeq(f, 1, CHOOSE n \in PrefixesBefore(f, p) :
                          \A m \in PrefixesBefore(f, p) : n <= m)
    ELSE WithoutExtension(f)

\* Where the mapping lists the file f: <<entry, position in its list>>.
PlacesOf(f) ==
    {pl \in (1..Len(images_by_person)) \X (1..Len(listing)) :
        /\ pl[2] <= Len(images_by_person[pl[1]][2])
        /\ images_by_person[pl[1]][2][pl[2]] = os_path_join(ImageDir, f)}

\* C11: index_images_by_person partitions the image files of the directory
\* by person: a file whose name ends, case-insensitively, in .jpg, .jpeg or
\* .png is listed exactly once, under the part of its name before the first
\* occurrence of the pattern, or under its name without the extension when
\* the pattern does not occur; any other file is listed nowhere; nothing
\* else is listed; no list is empty; a missing directory gives an empty
\* mapping.
C11_IndexPartitionsByPerson ==
    Indexed =>
        /\ ~dir_exists => images_by_person = <<>>
        /\ Distinct(images_by_person)
        /\ \A i \in 1..Len(images_by_person) : images_by_person[i][2] # <<>>
        /\ \A n \in 1..Len(listing) :
             IF EndsInImageExtension(listing[n])
             THEN /\ Cardinality(PlacesOf(listing[n])) = 1
                  /\ \A pl \in PlacesOf(listing[n]) :
                       images_by_person[pl[1]][1] = KeyOf(listing[n], pattern)
             ELSE PlacesOf(listing[n]) = {}
        /\ \A i \in 1..Len(images_by_person) :
             \A j \in 1..Len(images_by_person[i][2]) :
                \E n \in 1..Len(listing) :
                   images_by_person[i][2][j] = os_path_join(ImageDir, listing[n])

\* C11 witness: two image files of one person, one named with the default
\* pattern and an upper-case extension, the other without the pattern, in
\* one list of two paths.
C11_Witness ==
    /\ Indexed
    /\ pattern = <<"_", "_">>
    /\ Len(listing) = 2
    /\ Len(images_by_person) = 1
    /\ images_by_person[1][1] = <<"a">>
    /\ Len(images_by_person[1][2]) = 2
    /\ \E n \in 1..2 :
         /\ contains(listing[n], pattern)
         /\ ~IsImageName_case_sensitive(listing[n])
    /\ \E n \in 1..2 : ~contains(listing[n], pattern)

SetupDone == call = "test_setup.main" /\ pc = "returned"

\* What each of the ten checks needs of the environment to return True.
Passes ==
    [docker_files |-> DockerFiles \subseteq files,
     model_files |-> ModelFile \in files,
     data_files |-> dir_exists /\ \E i, j \in 1..Len(listing) :
                       /\ i # j
                       /\ EndsInImageExtension(listing[i])
                       /\ EndsInImageExtension(listing[j]),
     python_deps |-> Dependencies \subseteq modules,
     opencv |-> "cv2" \in modules,
     tensorflow |-> "tensorflow" \in modules,
     model_loading |-> "tensorflow" \in modules /\ model_loads,
     camera |-> camera = "ok",
     haar_cascade |-> cascade = "ok",
     integration |-> Dependencies \subseteq modules /\ model_loads /\ builds]

\* C12: test_setup.main returns 0 if and only if each of the ten checks was
\* called and returned True, and 1 otherwise; model_loading is skipped
\* exactly when model_files failed, integration exactly when model_files,
\* data_files or python_deps failed, and a skipped check counts as failed.
C12_ExitZeroIffAllChecksPassed ==
    SetupDone =>
        /\ status \in {Some(0), Some(1)}
        /\ status = Some(0) <=>
             \A c \in DOMAIN Passes : c \in called /\ Passes[c]
        /\ \A c \in called : results[c] = Passes[c]
        /\ \A c \in DOMAIN Passes \ called : ~results[c]
        /\ "model_loading" \in called <=> Passes.model_files
        /\ "integration" \in called <=>
             Passes.model_files /\ Passes.data_files /\ Passes.python_deps
        /\ DOMAIN Passes \ called \subseteq {"model_loading", "integration"}

\* C12 witness: the model file is missing, so that model_loading and
\* integration are skipped; the eight other checks return True; main
\* returns 1.
C12_Witness ==
    /\ SetupDone
    /\ called = DOMAIN Passes \ {"model_loading", "integration"}
    /\ \A c \in called \ {"model_files"} : results[c]
    /\ model_loads /\ builds
    /\ status = Some(1)

AppCalled == call = "app.main"
\* load_gallery has returned.
GalleryLoaded == AppCalled /\ pc \in {"initialize_camera", "loop", "returned"}

\* C13: whenever load_gallery has returned, at start-up or after a reload,
\* the gallery holds at least one person, so that no frame is identified
\* against an empty gallery.
C13_LoadedGalleryNotEmpty ==
    GalleryLoaded => gallery # <<>>

====
